---- MODULE Spec2Model ----
(***************************************************************************)
(* The event core of circuits (circuits/core.py): the Manager's handler    *)
(* index, address resolution, registration, the component attach/detach    *)
(* machinery, the queue-and-flush loop, the dispatch loop of send, and     *)
(* start, stop and the loop of the thread they run.                        *)
(*                                                                         *)
(* Strings are modelled as sequences of tokens.  A name such as "a" or "c" *)
(* is the one-token string <<"a">>; the separator ":" and the wildcard "*" *)
(* are tokens of their own, so "%s:%s" % (t, c), split(":", 1), startswith *)
(* and endswith are computed on the tokens as the code computes them on    *)
(* characters.  Python's None is the empty sequence; the empty string is   *)
(* not among the inputs.                                                   *)
(***************************************************************************)
EXTENDS Naturals, Sequences, FiniteSets

(***************************************************************************)
(* Bounds of the model.                                                    *)
(***************************************************************************)
\* registration operations (add, remove, register, unregister, +, -) in one run
MaxOps == 3
\* events created in one run: pushed by the caller, pushed by handlers, Error events
MaxEvents == 3
\* flushes begun on one root in one run
MaxFlushes == 2

(***************************************************************************)
(* Strings.                                                                *)
(***************************************************************************)
Null == <<>>
Star == <<"*">>
Colon == <<":">>
ErrorChannel == <<"error">>

\* "%s:%s" % (target, channel)
Fmt(target, channel) == target \o Colon \o channel

\* ":" in s
HasColon(s) == \E i \in 1..Len(s) : s[i] = ":"

\* the index of the first ":" of s, where s.split(":", 1) cuts
FirstColon(s) == CHOOSE i \in 1..Len(s) : s[i] = ":" /\ \A j \in 1..(i - 1) : s[j] # ":"

\* s.split(":", 1)[0] and s.split(":", 1)[1]
SplitTarget(s) == SubSeq(s, 1, FirstColon(s) - 1)
SplitChannel(s) == SubSeq(s, FirstColon(s) + 1, Len(s))

\* a suffix test that only an equal string passes
EndsWithWhole(k, c) == k = c

\* k.startswith(c) and k.endswith(c)
StartsWith(k, c) == Len(c) <= Len(k) /\ SubSeq(k, 1, Len(c)) = c
EndsWith(k, c) == Len(c) <= Len(k) /\ SubSeq(k, Len(k) - Len(c) + 1, Len(k)) = c

Range(s) == {s[i] : i \in 1..Len(s)}

(***************************************************************************)
(* The components of the model and their handlers.  A and B are components *)
(* with a channel of their own (as tests/net/client.py's Client), D is a   *)
(* component without one.  Every manager of the model is a component: a    *)
(* component that is its own manager is a root.                            *)
(***************************************************************************)
Mgrs == {"A", "B", "D"}

\* BaseComponent.channel, set by __init__
channel == [A |-> <<"a">>, B |-> <<"b">>, D |-> Null]

HandlerIds == {"Al", "Bl", "Dg", "Dl", "Dv"}

\* f.type, f.channels and f.target, as the listener decorator sets them
htype == [Al |-> "listener", Bl |-> "listener", Dg |-> "listener",
          Dl |-> "listener", Dv |-> "filter"]
hchannels == [Al |-> << <<"c">> >>, Bl |-> << <<"c">> >>, Dg |-> << >>,
              Dl |-> << <<"c">> >>, Dv |-> << <<"c">> >>]
htarget == [Al |-> Null, Bl |-> Null, Dg |-> Null, Dl |-> Null, Dv |-> Null]

\* getmembers(self, p): the component's handlers, sorted by name
members == [A |-> <<"Al">>, B |-> <<"Bl">>, D |-> <<"Dg", "Dl", "Dv">>]

\* the names that occur as channel and as target, and the bucket keys built of them
ChannelNames == {Star, <<"c">>, ErrorChannel}
TargetNames == {Star, <<"a">>, <<"b">>}
Keys == ChannelNames \cup {Fmt(t, c) : t \in TargetNames, c \in ChannelNames}

(***************************************************************************)
(* The state.                                                              *)
(***************************************************************************)
VARIABLES
    channels,     \* Manager._channels: manager -> bucket key -> list of handlers
    allHandlers,  \* Manager._handlers: manager -> set of handlers
    components,   \* Manager._components: manager -> set of components
    manager,      \* Manager.manager: the back-reference
    arrival,      \* history: manager -> bucket key -> the bucket's handlers in the order they were appended
    last,         \* history: the last registration operation, with the index it found
    ops,          \* history: the number of registration operations so far
    queue,        \* Manager._queue: manager -> the ids of the queued events, oldest first
    flushing,     \* the root whose flush() is running, or "none"
    flushQ,       \* flush's local q: the swapped-out queue
    call,         \* the running send: its arguments, its loop position, r
    evs,          \* history: every event pushed so far; an event's id is its place here
    flushNo,      \* history: manager -> the number of flushes begun on it
    logged,       \* history: the number of handler failures met with log on
    running,      \* Manager.running of the root D: the flag that start sets and stop clears
    worker,       \* the thread that start creates: "none", "alive" or "done"
    main,         \* the thread that calls start and stop: "init", "started", "joining", "stopped"
    producer      \* a thread that calls push on the root D: where it is, and the queue it has read

regVars == <<channels, allHandlers, components, manager, arrival, last, ops>>
runVars == <<queue, flushing, flushQ, call, evs, flushNo, logged>>
thrVars == <<running, worker, main, producer>>
vars == <<channels, allHandlers, components, manager, arrival, last, ops,
          queue, flushing, flushQ, call, evs, flushNo, logged,
          running, worker, main, producer>>

\* An index: the buckets, the handler set, and the arrival history of the buckets.
EmptyIndex == [ch |-> [k \in Keys |-> <<>>], hs |-> {}, arr |-> [k \in Keys |-> <<>>]]

IndexOf(m) == [ch |-> channels[m], hs |-> allHandlers[m], arr |-> arrival[m]]

(***************************************************************************)
(* Manager._add and Manager._remove.                                       *)
(***************************************************************************)
\* a bucket left as it was appended to
Unsorted(bucket) == bucket

\* list.sort(key=lambda x: x.type): a stable sort on "filter" < "listener"
SortByType(bucket) ==
    SelectSeq(bucket, LAMBDA h : htype[h] = "filter")
        \o SelectSeq(bucket, LAMBDA h : htype[h] # "filter")

\* list.remove(h): the first occurrence goes
RemoveFirst(bucket, h) ==
    IF h \notin Range(bucket) THEN bucket
    ELSE LET i == CHOOSE j \in 1..Len(bucket) :
                      bucket[j] = h /\ \A n \in 1..(j - 1) : bucket[n] # h
         IN  SubSeq(bucket, 1, i - 1) \o SubSeq(bucket, i + 1, Len(bucket))

\* the bucket after _add appended to it
Inserted(bucket, h) ==
    IF bucket # <<>>
    THEN IF h \notin Range(bucket) THEN SortByType(Append(bucket, h)) ELSE bucket
    ELSE <<h>>

\* Manager._add(handler, channel) on the index idx; a channel of None is "*"
add(idx, h, chan) ==
    LET key == IF chan = Null THEN Star ELSE chan
    IN  [ch  |-> [idx.ch EXCEPT ![key] = Inserted(@, h)],
         hs  |-> idx.hs \cup {h},
         arr |-> [idx.arr EXCEPT ![key] = IF h \in Range(@) THEN @ ELSE Append(@, h)]]

\* Manager._remove(handler, channel) on the index idx
remove(idx, h, chan) ==
    LET keys == IF chan = Null THEN Keys ELSE {chan}
    IN  [ch  |-> [k \in Keys |-> IF k \in keys THEN RemoveFirst(idx.ch[k], h) ELSE idx.ch[k]],
         hs  |-> idx.hs \ {h},
         arr |-> [k \in Keys |-> IF k \in keys THEN RemoveFirst(idx.arr[k], h) ELSE idx.arr[k]]]

(***************************************************************************)
(* Manager.handlers(s): address resolution.  The result is a set of        *)
(* sequences: the code iterates a set (self._handlers) and a dict          *)
(* (self.channels) whose orders the language leaves open, so every order   *)
(* is a possible result.  An entry <<k, h>> is the handler h read from the *)
(* bucket k; an entry read from the set self._handlers has k = Null.       *)
(***************************************************************************)
\* "%s" % x
PyStr(x) == IF x = Null THEN <<"None">> ELSE x

\* every order of the elements of a set
Orders(S) == {f \in [1..Cardinality(S) -> S] : Range(f) = S}

OrdersOfHandlers == [S \in SUBSET HandlerIds |-> Orders(S)]

\* the entries of one bucket
BucketEntries(ch, k) == [i \in 1..Len(ch[k]) |-> <<k, ch[k][i]>>]

\* [i for y in x for i in y]: the buckets named by ks, one after the other
RECURSIVE Chain(_, _)
Chain(ch, ks) ==
    IF ks = <<>> THEN <<>> ELSE BucketEntries(ch, Head(ks)) \o Chain(ch, Tail(ks))

\* channels[k], and "k in channels": a bucket that is absent and one that is
\* empty yield the same handlers, and the model holds every bucket
Present(ch, k) == k \in Keys /\ ch[k] # <<>>

\* [channels[k] for k in channels if k in ks], in each order the dict may have
Matching(ch, ks) ==
    {Chain(ch, o) : o \in Orders({k \in ks : Present(ch, k)})}

handlersOf(ch, hs, s) ==
    IF s = Fmt(Star, Star)
    THEN {[i \in 1..Len(o) |-> <<Null, o[i]>>] : o \in OrdersOfHandlers[hs]}
    ELSE
    LET target == IF HasColon(s) THEN SplitTarget(s) ELSE Null
        chan == IF HasColon(s) THEN SplitChannel(s) ELSE s
        globals == BucketEntries(ch, Star)
    IN  IF target = Star
        THEN {globals \o all :
                 all \in Matching(ch, {k \in Keys : k = chan \/ EndsWith(k, Colon \o chan)})}
        ELSE IF chan = Star
        THEN {globals \o all :
                 all \in Matching(ch, {k \in Keys : StartsWith(k, PyStr(target) \o Colon)
                                                    \/ ~HasColon(k)})}
        ELSE {globals
                \o (IF Present(ch, chan) THEN BucketEntries(ch, chan) ELSE <<>>)
                \o (IF target # Null /\ Present(ch, Fmt(target, Star))
                    THEN BucketEntries(ch, Fmt(target, Star)) ELSE <<>>)
                \o (IF Present(ch, Fmt(Star, chan))
                    THEN BucketEntries(ch, Fmt(Star, chan)) ELSE <<>>)
                \o (IF target # Null /\ Present(ch, s)
                    THEN BucketEntries(ch, s) ELSE <<>>)}

\* m.handlers(s)
handlers(m, s) == handlersOf(channels[m], allHandlers[m], s)

(***************************************************************************)
(* BaseComponent.register and BaseComponent.unregister.                    *)
(***************************************************************************)
\* the channels a handler is registered on: handler.channels, or ["*"]
ChannelsOf(h) == IF hchannels[h] # <<>> THEN hchannels[h] ELSE <<Star>>

\* the bucket key register builds for a handler of component c on channel chan
KeyOf(c, h, chan) ==
    IF channel[c] # Null
    THEN Fmt(IF htarget[h] # Null THEN htarget[h] ELSE channel[c], chan)
    ELSE chan

\* the (handler, key) pairs of register's two loops, in the order of the loops
RECURSIVE PairsOf(_, _, _)
PairsOf(c, h, chans) ==
    IF chans = <<>> THEN <<>>
    ELSE << <<h, KeyOf(c, h, Head(chans))>> >> \o PairsOf(c, h, Tail(chans))

RECURSIVE AllPairs(_, _)
AllPairs(c, hs) ==
    IF hs = <<>> THEN <<>>
    ELSE PairsOf(c, Head(hs), ChannelsOf(Head(hs))) \o AllPairs(c, Tail(hs))

RECURSIVE AddAll(_, _)
AddAll(idx, pairs) ==
    IF pairs = <<>> THEN idx
    ELSE AddAll(add(idx, Head(pairs)[1], Head(pairs)[2]), Tail(pairs))

\* the index of manager m after c.register(m) ran its loops
Registered(idx, c) == AddAll(idx, AllPairs(c, members[c]))

\* the index after unregister's loop: every handler of the set hs removed
RECURSIVE RemoveAll(_, _)
RemoveAll(idx, hs) ==
    IF hs = {} THEN idx
    ELSE LET h == CHOOSE x \in hs : TRUE
         IN  RemoveAll(remove(idx, h, Null), hs \ {h})

SetIndex(m, idx) ==
    /\ channels' = [channels EXCEPT ![m] = idx.ch]
    /\ allHandlers' = [allHandlers EXCEPT ![m] = idx.hs]
    /\ arrival' = [arrival EXCEPT ![m] = idx.arr]

\* the history of the last registration operation: after c.register(m), the
\* index of m as register found it (snap), whether c was its own manager
\* (detached) and whether m was (toRoot); op is "attach_detach" after a
\* c.unregister() that follows c.register(m) at once
NoOp == [op |-> "none", c |-> "D", m |-> "D", snap |-> EmptyIndex,
         detached |-> FALSE, toRoot |-> FALSE]

\* c.register(m)
register(c, m) ==
    /\ SetIndex(m, Registered(IndexOf(m), c))
    /\ manager' = [manager EXCEPT ![c] = m]
    /\ components' = [components EXCEPT ![m] = @ \cup {c}]
    /\ last' = [op |-> "register", c |-> c, m |-> m, snap |-> IndexOf(m),
                detached |-> manager[c] = c, toRoot |-> manager[m] = m]

\* c.unregister()
unregister(c) ==
    LET m == manager[c]
    IN  /\ SetIndex(m, RemoveAll(IndexOf(m), allHandlers[c]))
        /\ components' = [components EXCEPT ![m] = @ \ {c}]
        /\ manager' = [manager EXCEPT ![c] = c]
        /\ last' = IF last.op = "register" /\ last.c = c
                   THEN [last EXCEPT !.op = "attach_detach"]
                   ELSE [NoOp EXCEPT !.op = "unregister", !.c = c, !.m = m]

(***************************************************************************)
(* Construction: Manager.__init__ and BaseComponent.__init__, which        *)
(* registers the component with itself.                                    *)
(***************************************************************************)
Constructed ==
    /\ channels = [m \in Mgrs |-> Registered(EmptyIndex, m).ch]
    /\ allHandlers = [m \in Mgrs |-> Registered(EmptyIndex, m).hs]
    /\ arrival = [m \in Mgrs |-> Registered(EmptyIndex, m).arr]
    /\ components = [m \in Mgrs |-> {m}]
    /\ manager = [m \in Mgrs |-> m]
    /\ last = NoOp
    /\ ops = 0

(***************************************************************************)
(* The registration operations.                                            *)
(***************************************************************************)
Count == ops < MaxOps /\ ops' = ops + 1 /\ UNCHANGED <<runVars, thrVars>>

Register(c, m) == Count /\ register(c, m)

Unregister(c) == Count /\ unregister(c)

\* Manager.__add__ and __iadd__: m + c, m += c
Plus(m, c) == Count /\ register(c, manager[m])

\* a detach that does not look at the back-reference
MinusUnchecked(m, c) == Count /\ unregister(c)

\* Manager.__sub__ and __isub__: m - c, m -= c
Minus(m, c) ==
    /\ Count
    /\ IF manager[c] = m
       THEN unregister(c)
       ELSE /\ UNCHANGED <<channels, allHandlers, components, manager, arrival>>
            /\ last' = [NoOp EXCEPT !.op = "TypeError", !.c = c, !.m = m]

\* m._add(h, chan)
Add(m, h, chan) ==
    /\ Count
    /\ htype[h] \in {"filter", "listener"}
    /\ SetIndex(m, add(IndexOf(m), h, chan))
    /\ last' = [NoOp EXCEPT !.op = "add", !.m = m]
    /\ UNCHANGED <<components, manager>>

\* m._remove(h, chan)
Remove(m, h, chan) ==
    /\ Count
    /\ SetIndex(m, remove(IndexOf(m), h, chan))
    /\ last' = [NoOp EXCEPT !.op = "remove", !.m = m]
    /\ UNCHANGED <<components, manager>>

\* the handlers and channels given to _add and _remove directly
DirectHandlers == {"Al", "Dv"}
DirectChannels == {Null, <<"c">>}

NextReg ==
    \/ \E c \in Mgrs, m \in Mgrs : Register(c, m)
    \/ \E c \in Mgrs : Unregister(c)
    \/ \E m \in Mgrs, c \in Mgrs : Plus(m, c)
    \/ \E m \in Mgrs, c \in Mgrs : Minus(m, c)
    \/ \E m \in Mgrs, h \in DirectHandlers, chan \in DirectChannels : Add(m, h, chan)
    \/ \E m \in Mgrs, h \in DirectHandlers, chan \in DirectChannels : Remove(m, h, chan)

(***************************************************************************)
(* Events, the queue, and the send that is running.                        *)
(***************************************************************************)
\* the values a handler returns; r starts as False
Values == {"None", "t1", "t2"}

\* "r is not None and r"
Truthy(r) == r \notin {"None", "False"}

\* following the back-references as push, flush and send do: self.manager,
\* then its manager, until a manager that is its own
RECURSIVE RootFrom(_, _)
RootFrom(m, fuel) ==
    IF manager[m] = m THEN m
    ELSE IF fuel = 0 THEN "none"
    ELSE RootFrom(manager[m], fuel - 1)

\* one step of delegation taken for the whole of it
Parent(m) == manager[m]

Root(m) == RootFrom(m, Cardinality(Mgrs))

NoCall == [status |-> "none", root |-> "none", ev |-> 0, key |-> Null, seq |-> <<>>,
           idx |-> 0, r |-> "False", errors |-> FALSE, log |-> TRUE,
           hit |-> 0, hitValue |-> "False", raisedAt |-> 0]

\* no thread has been started, and the producer is not in push
Unstarted ==
    /\ running = FALSE
    /\ worker = "none"
    /\ main = "init"
    /\ producer = [pc |-> "idle", gen |-> 0]

Idle ==
    /\ queue = [m \in Mgrs |-> <<>>]
    /\ flushing = "none"
    /\ flushQ = <<>>
    /\ call = NoCall
    /\ evs = <<>>
    /\ flushNo = [m \in Mgrs |-> 0]
    /\ logged = 0
    /\ Unstarted

\* Manager.push(event, channel, target) called on m, on the queues q and the
\* history es; kind tells an Error event from any other.  The history keeps,
\* of each event: the root it was queued on, the number of flushes that root
\* had begun (bornAt), the flush of that root that was running (bornIn, or 0),
\* the flushes that found it in the queue as they began (queuedAt), and the
\* flush and lookup key of each send of it (sent).
push(qe, m, chan, target, kind) ==
    LET root == Root(m)
        id == Len(qe.es) + 1
    IN  [q  |-> [qe.q EXCEPT ![root] = Append(@, id)],
         es |-> Append(qe.es, [chan |-> chan, target |-> target, kind |-> kind,
                               root |-> root,
                               bornAt |-> flushNo[root],
                               bornIn |-> IF flushing = root THEN flushNo[root] ELSE 0,
                               queuedAt |-> <<>>,
                               sent |-> <<>>])]

\* the first lines of send on the root: the lookup key, the resolved handlers
\* (one of the orders handlers() may yield), r = False
BeginSend(root, id, chan, target, errors, log, es) ==
    LET key == IF target # Null THEN Fmt(target, chan) ELSE chan
    IN  \E seq \in handlers(root, key) :
            /\ call' = [NoCall EXCEPT !.status = IF seq = <<>> THEN "returned" ELSE "running",
                                      !.root = root, !.ev = id, !.key = key, !.seq = seq,
                                      !.errors = errors, !.log = log]
            /\ evs' = IF id = 0 THEN es
                      ELSE [es EXCEPT ![id].sent = Append(@, <<flushNo[root], key>>)]

\* the owner of a handler: the component whose method it is
owner == [Al |-> "A", Bl |-> "B", Dg |-> "D", Dl |-> "D", Dv |-> "D"]

\* the channels and targets the callers of the model push and send on
RunChannels == {<<"c">>, Star}
RunTargets == {Null, <<"a">>, Star}

\* the event a handler may push while it runs
HandlerChannel == <<"c">>

(***************************************************************************)
(* The operations on the queue.  The caller's own calls come when nothing  *)
(* is running: one thread runs push, flush and send.                       *)
(***************************************************************************)
AtRest == flushing = "none" /\ call.status = "none"

\* m.push(Event(), chan, target), from outside a handler
Push(m, chan, target) ==
    /\ AtRest
    /\ Root(m) \in Mgrs
    /\ Len(evs) < MaxEvents
    /\ LET qe == push([q |-> queue, es |-> evs], m, chan, target, "event")
       IN  queue' = qe.q /\ evs' = qe.es
    /\ UNCHANGED <<flushing, flushQ, call, flushNo, logged>>
    /\ UNCHANGED <<regVars, thrVars>>

\* a flush that takes q after the queue was replaced: q is the fresh queue
FlushSwapsFirst(m) ==
    /\ flushing = "none" /\ call.status = "none"
    /\ Root(m) \in Mgrs
    /\ flushNo[Root(m)] < MaxFlushes
    /\ flushing' = Root(m)
    /\ flushQ' = <<>>
    /\ queue' = [queue EXCEPT ![Root(m)] = <<>>]
    /\ flushNo' = [flushNo EXCEPT ![Root(m)] = @ + 1]
    /\ evs' = [id \in 1..Len(evs) |->
                  IF id \in Range(queue[Root(m)])
                  THEN [evs[id] EXCEPT !.queuedAt = Append(@, flushNo[Root(m)] + 1)]
                  ELSE evs[id]]
    /\ UNCHANGED <<call, logged>>
    /\ UNCHANGED <<regVars, thrVars>>

\* m.flush() up to its loop: the queue is swapped for a fresh one
Flush(m) ==
    /\ AtRest
    /\ Root(m) \in Mgrs
    /\ flushNo[Root(m)] < MaxFlushes
    /\ flushing' = Root(m)
    /\ flushQ' = queue[Root(m)]
    /\ queue' = [queue EXCEPT ![Root(m)] = <<>>]
    /\ flushNo' = [flushNo EXCEPT ![Root(m)] = @ + 1]
    /\ evs' = [id \in 1..Len(evs) |->
                  IF id \in Range(queue[Root(m)])
                  THEN [evs[id] EXCEPT !.queuedAt = Append(@, flushNo[Root(m)] + 1)]
                  ELSE evs[id]]
    /\ UNCHANGED <<call, logged>>
    /\ UNCHANGED <<regVars, thrVars>>

\* a loop that takes the oldest entry: q.popleft()
FlushPopsOldest ==
    /\ flushing # "none"
    /\ call.status # "running"
    /\ flushQ # <<>>
    /\ LET id == flushQ[1]
       IN  /\ flushQ' = Tail(flushQ)
           /\ BeginSend(flushing, id, evs[id].chan, evs[id].target, FALSE, TRUE, evs)
    /\ UNCHANGED <<queue, flushing, flushNo, logged>>
    /\ UNCHANGED <<regVars, thrVars>>

\* one turn of flush's loop: q.pop(), and send as far as its loop
FlushPop ==
    /\ flushing # "none"
    /\ call.status # "running"
    /\ flushQ # <<>>
    /\ LET id == flushQ[Len(flushQ)]
       IN  /\ flushQ' = SubSeq(flushQ, 1, Len(flushQ) - 1)
           /\ BeginSend(flushing, id, evs[id].chan, evs[id].target, FALSE, TRUE, evs)
    /\ UNCHANGED <<queue, flushing, flushNo, logged>>
    /\ UNCHANGED <<regVars, thrVars>>

\* flush's loop ends: q is empty
FlushEnd ==
    /\ flushing # "none"
    /\ call.status # "running"
    /\ flushQ = <<>>
    /\ flushing' = "none"
    /\ call' = NoCall
    /\ UNCHANGED <<queue, flushQ, evs, flushNo, logged>>
    /\ UNCHANGED <<regVars, thrVars>>

\* m.send(Event(), chan, target, errors, log) from outside a handler, as far
\* as its loop
Send(m, chan, target, errors, log) ==
    /\ AtRest
    /\ Root(m) \in Mgrs
    /\ BeginSend(Root(m), 0, chan, target, errors, log, evs)
    /\ UNCHANGED <<queue, flushing, flushQ, flushNo, logged>>
    /\ UNCHANGED <<regVars, thrVars>>

\* a loop that never breaks
NeverBreaks(r, h) == FALSE

\* the break test at the end of send's loop body
Breaks(r, h) == Truthy(r) /\ htype[h] = "filter"

\* a failure that is logged whatever the flag says
LogsAlways(raised, log) == raised

\* the except clause pushes an Error event: "if log:"
Logs(raised, log) == raised /\ log

\* one turn of send's loop: the handler runs and returns out or raises; it may
\* push an event of its own while it runs (pushes)
Invoke(out, pushes) ==
    /\ call.status = "running"
    /\ LET h == call.seq[call.idx + 1][2]
           raised == out = "raise"
           qe0 == [q |-> queue, es |-> evs]
           qe1 == IF pushes THEN push(qe0, owner[h], HandlerChannel, Null, "event") ELSE qe0
           qe2 == IF Logs(raised, call.log)
                  THEN push(qe1, call.root, ErrorChannel, Null, "error") ELSE qe1
           r == IF raised THEN call.r ELSE out
           done == Breaks(r, h) \/ call.idx + 1 = Len(call.seq)
       IN  /\ Len(qe2.es) <= MaxEvents
           /\ pushes => Root(owner[h]) \in Mgrs
           /\ queue' = qe2.q
           /\ evs' = qe2.es
           /\ logged' = IF raised /\ call.log THEN logged + 1 ELSE logged
           /\ call' = [call EXCEPT
                  !.idx = @ + 1,
                  !.r = r,
                  !.status = IF raised /\ call.errors THEN "raised"
                             ELSE IF done THEN "returned" ELSE "running",
                  !.hit = IF ~raised /\ Truthy(out) /\ htype[h] = "filter" /\ @ = 0
                          THEN call.idx + 1 ELSE @,
                  !.hitValue = IF ~raised /\ Truthy(out) /\ htype[h] = "filter" /\ call.hit = 0
                               THEN out ELSE @,
                  !.raisedAt = IF raised THEN call.idx + 1 ELSE @]
    /\ UNCHANGED <<flushing, flushQ, flushNo>>
    /\ UNCHANGED <<regVars, thrVars>>

\* the caller of send has its result, or its exception
Return ==
    /\ flushing = "none"
    /\ call.status \in {"returned", "raised"}
    /\ call' = NoCall
    /\ UNCHANGED <<queue, flushing, flushQ, evs, flushNo, logged>>
    /\ UNCHANGED <<regVars, thrVars>>

\* push and flush, and send with the logging flag either way
NextRun ==
    \/ \E m \in Mgrs, target \in {Null, <<"a">>} : Push(m, <<"c">>, target)
    \/ \E m \in Mgrs : Flush(m)
    \/ FlushPop
    \/ FlushEnd
    \/ \E m \in Mgrs, errors \in BOOLEAN, log \in BOOLEAN : Send(m, <<"c">>, Null, errors, log)
    \/ \E out \in {"None", "t1", "raise"}, pushes \in BOOLEAN : Invoke(out, pushes)
    \/ Return

\* send on every form of key, with the flags either way
NextSend ==
    \/ \E m \in Mgrs, chan \in RunChannels, target \in RunTargets,
          errors \in BOOLEAN, log \in BOOLEAN : Send(m, chan, target, errors, log)
    \/ \E out \in Values \cup {"raise"} : Invoke(out, FALSE)
    \/ Return

(***************************************************************************)
(* The threads: start and stop on the root D, the thread that start        *)
(* creates, and a producer thread that calls push on D.  A thread may be   *)
(* switched between any two of its reads and writes of shared state.  The  *)
(* deque that D._queue names is told from the ones it named before by the  *)
(* number of swaps flush has made: flushNo["D"].                           *)
(***************************************************************************)
\* D.start(): the thread is created, the flag is set, the thread is started
Start ==
    /\ main = "init"
    /\ running' = TRUE
    /\ worker' = "alive"
    /\ main' = "started"
    /\ UNCHANGED producer
    /\ UNCHANGED <<regVars, runVars>>

\* a loop test that does not read the flag
LoopTestAlive == worker = "alive"

\* the test of _run's loop: self.running and self.thread.isAlive()
LoopTest == running /\ worker = "alive"

\* one turn of _run's loop as far as flush's loop: the test holds, the ticks
\* are called (D has no attribute that is a Manager: there is none), and
\* self.manager.flush() swaps the queue.  A push that another thread makes
\* between the test and the swap lands in the deque that is swapped out, as
\* one made before the test does.
WorkerIterate == LoopTest /\ Flush("D")

\* the test fails: _run returns and the thread ends
WorkerExit ==
    /\ worker = "alive"
    /\ AtRest
    /\ ~LoopTest
    /\ worker' = "done"
    /\ UNCHANGED <<running, main, producer>>
    /\ UNCHANGED <<regVars, runVars>>

\* D.stop() as far as the join: the flag is cleared
Stop ==
    /\ main = "started"
    /\ running' = FALSE
    /\ main' = "joining"
    /\ UNCHANGED <<worker, producer>>
    /\ UNCHANGED <<regVars, runVars>>

\* self.thread.join() returns, and stop with it: the thread has ended
Join ==
    /\ main = "joining"
    /\ worker = "done"
    /\ main' = "stopped"
    /\ UNCHANGED <<running, worker, producer>>
    /\ UNCHANGED <<regVars, runVars>>

\* D.push(Event(), "c") on the producer thread, as far as the attribute
\* self._queue is read: the producer holds the deque that D._queue names now
ProducerLoad ==
    /\ producer.pc = "idle"
    /\ manager["D"] = "D"
    /\ Len(evs) < MaxEvents
    /\ producer' = [pc |-> "loaded", gen |-> flushNo["D"]]
    /\ UNCHANGED <<running, worker, main>>
    /\ UNCHANGED <<regVars, runVars>>

\* the append of that push, to the deque the producer holds: D._queue if no
\* swap came between, the q of the flush that is running if that flush
\* swapped it out, and otherwise a deque that nothing names any more
ProducerAppend ==
    /\ producer.pc = "loaded"
    /\ Len(evs) < MaxEvents
    /\ LET id == Len(evs) + 1
           e == [chan |-> <<"c">>, target |-> Null, kind |-> "event", root |-> "D",
                 bornAt |-> flushNo["D"],
                 bornIn |-> IF flushing = "D" THEN flushNo["D"] ELSE 0,
                 queuedAt |-> <<>>, sent |-> <<>>]
       IN  /\ evs' = Append(evs, e)
           /\ IF producer.gen = flushNo["D"]
              THEN queue' = [queue EXCEPT !["D"] = Append(@, id)] /\ flushQ' = flushQ
              ELSE IF flushing = "D" /\ producer.gen + 1 = flushNo["D"]
              THEN flushQ' = Append(flushQ, id) /\ queue' = queue
              ELSE UNCHANGED <<queue, flushQ>>
    /\ producer' = [pc |-> "idle", gen |-> 0]
    /\ UNCHANGED <<flushing, call, flushNo, logged>>
    /\ UNCHANGED <<running, worker, main>>
    /\ UNCHANGED regVars

\* the steps of the thread that start created
WorkerStep ==
    \/ WorkerIterate
    \/ FlushPop
    \/ FlushEnd
    \/ \E out \in {"None", "raise"} : Invoke(out, FALSE)
    \/ WorkerExit

NextThread ==
    \/ Start
    \/ Stop
    \/ Join
    \/ WorkerIterate
    \/ FlushPop
    \/ FlushEnd
    \/ \E out \in {"None", "raise"} : Invoke(out, FALSE)
    \/ WorkerExit
    \/ ProducerLoad
    \/ ProducerAppend

(***************************************************************************)
(* Flushing without end.  The histories grow with every event and every    *)
(* flush; to follow a run of any length in a finite state space, Forget    *)
(* lets them start afresh between two flushes: the events that were sent   *)
(* are dropped and the queued ones renumbered.  It changes no state of the *)
(* program.                                                                *)
(***************************************************************************)
Forget ==
    /\ AtRest
    /\ flushNo["D"] # 0
    /\ LET q == queue["D"]
       IN  /\ evs' = [j \in 1..Len(q) |->
                         [evs[q[j]] EXCEPT !.bornAt = 0, !.bornIn = 0,
                                           !.queuedAt = <<>>, !.sent = <<>>]]
           /\ queue' = [queue EXCEPT !["D"] = [j \in 1..Len(q) |-> j]]
    /\ flushNo' = [m \in Mgrs |-> 0]
    /\ logged' = 0
    /\ UNCHANGED <<flushing, flushQ, call>>
    /\ UNCHANGED <<regVars, thrVars>>

\* flush after flush, with handlers that return or raise and push nothing
NextQuiesce ==
    \/ \E m \in Mgrs : Flush(m)
    \/ FlushPop
    \/ FlushEnd
    \/ \E out \in {"None", "t1", "raise"} : Invoke(out, FALSE)
    \/ Forget

(***************************************************************************)
(* The properties.                                                         *)
(***************************************************************************)
\* the number of sends of the event e in flush n of its root
SentIn(e, n) == Cardinality({i \in 1..Len(e.sent) : e.sent[i][1] = n})

\* flush n of the root has begun and has ended
FlushOver(root, n) == flushNo[root] > n \/ (flushNo[root] = n /\ flushing # root)

\* C1: an event that is in the root's queue when a flush begins is sent at
\* most once during that flush and exactly once by its end; an event pushed
\* while a flush of the root runs is not sent in that flush, and is sent
\* exactly once in the next flush of the root.
C1_FlushSendsQueuedOnce ==
    \A id \in 1..Len(evs) :
        LET e == evs[id]
        IN  /\ \A i \in 1..Len(e.queuedAt) :
                  /\ SentIn(e, e.queuedAt[i]) <= 1
                  /\ FlushOver(e.root, e.queuedAt[i]) => SentIn(e, e.queuedAt[i]) = 1
            /\ e.bornIn # 0 =>
                  /\ SentIn(e, e.bornIn) = 0
                  /\ SentIn(e, e.bornIn + 1) <= 1
                  /\ FlushOver(e.root, e.bornIn + 1) => SentIn(e, e.bornIn + 1) = 1

\* flush 2 is over: it sent, once, an event a handler pushed during flush 1,
\* and flush 1 had sent, once, an event pushed before it
C1_Witness ==
    \E id \in 1..Len(evs), id2 \in 1..Len(evs) :
        /\ evs[id].kind = "event" /\ evs[id].bornIn = 0 /\ evs[id].queuedAt = <<1>>
        /\ SentIn(evs[id], 1) = 1
        /\ evs[id2].kind = "event" /\ evs[id2].bornIn = 1 /\ evs[id2].root = evs[id].root
        /\ SentIn(evs[id2], 1) = 0 /\ SentIn(evs[id2], 2) = 1
        /\ FlushOver(evs[id2].root, 2)

C3_ListenerNeverSuppresses ==
    (call.status = "returned" /\ ~call.errors /\ call.hit = 0) =>
        call.idx = Len(call.seq)

\* C4 (the claim): in a send with raise_errors off no exception reaches the
\* caller, and after a handler that raised the next handler of the resolved
\* sequence is invoked.
C4_FailureNeverAborts ==
    ~call.errors =>
        /\ call.status # "raised"
        /\ (call.status = "returned" /\ call.raisedAt # 0 /\ call.raisedAt < Len(call.seq))
              => call.idx > call.raisedAt

ErrorIds == {id \in 1..Len(evs) : evs[id].kind = "error"}

\* C5: there are as many Error events as handler failures met with log on
\* (none for a failure met with log off); each is queued on a root, on the
\* channel "error" with no target; it is sent at most once, under the key
\* "error", only in a flush that began after it was queued, and by the end of
\* the first such flush exactly once.
C5_ErrorEventOncePerFailure ==
    /\ Cardinality(ErrorIds) = logged
    /\ \A id \in ErrorIds :
        LET e == evs[id]
        IN  /\ e.chan = ErrorChannel /\ e.target = Null
            /\ manager[e.root] = e.root
            /\ Len(e.sent) <= 1
            /\ \A i \in 1..Len(e.sent) :
                  e.sent[i][1] > e.bornAt /\ e.sent[i][2] = ErrorChannel
            /\ Len(e.sent) = 0 =>
                  \/ id \in Range(queue[e.root])
                  \/ flushing = e.root /\ id \in Range(flushQ)
            /\ FlushOver(e.root, e.bornAt + 1) => Len(e.sent) = 1

\* an Error event of a failure during a flush has been sent, in a later flush,
\* and a send with log off has met a failure since
C5_Witness ==
    /\ \E id \in ErrorIds :
          evs[id].bornIn # 0 /\ Len(evs[id].sent) = 1
    /\ call.status = "returned" /\ ~call.log /\ call.raisedAt # 0

IsFilter(h) == htype[h] = "filter"
IsListener(h) == htype[h] = "listener"

\* C6: in every bucket of every manager the filters come before the
\* listeners, and the filters, and the listeners, stand in the order in which
\* they were appended to the bucket.
C6_FiltersFirstStable ==
    \A m \in Mgrs, k \in Keys :
        LET b == channels[m][k]
        IN  /\ \A i \in 1..Len(b), j \in 1..Len(b) :
                  (i < j) => ~(IsListener(b[i]) /\ IsFilter(b[j]))
            /\ SelectSeq(b, IsFilter) = SelectSeq(arrival[m][k], IsFilter)
            /\ SelectSeq(b, IsListener) = SelectSeq(arrival[m][k], IsListener)

\* a bucket that the sort reordered: the filter Dv was appended after the
\* listener Dl, and the listener Al after both
C6_Witness ==
    /\ channels["D"][<<"c">>] = <<"Dv", "Dl", "Al">>
    /\ arrival["D"][<<"c">>] = <<"Dl", "Dv", "Al">>

\* C7 (the claim, in the cases of a component c that was detached and a root
\* manager m other than c): c.register(m) followed at once by c.unregister()
\* leaves every bucket of m and m's handler set with the handlers they had
\* before, and c's back-reference at c.
C7_DetachRestores ==
    (last.op = "attach_detach" /\ last.detached /\ last.toRoot /\ last.c # last.m) =>
        /\ \A k \in Keys : Range(channels[last.m][k]) = Range(last.snap.ch[k])
        /\ allHandlers[last.m] = last.snap.hs
        /\ manager[last.c] = last.c

\* the handlers of an entry sequence
HandlersIn(seq) == {seq[i][2] : i \in 1..Len(seq)}

\* h is in the bucket k of m and in no other bucket of m
OnlyUnder(m, h, k) ==
    /\ h \in Range(channels[m][k])
    /\ \A k2 \in Keys \ {k} : h \notin Range(channels[m][k2])

\* the names of targets and of channels: the wildcard is not one
ProperTargets == TargetNames \ {Star}
ProperChannels == ChannelNames \ {Star}

Bucket(m, k) == channels[m][k]

\* the handlers of an entry sequence, in its order
HandlerSeq(seq) == [i \in 1..Len(seq) |-> seq[i][2]]

\* C9 (the claim): for a key without a target part, "*" or a channel c, the
\* resolution yields the global bucket followed by bucket[c] and nothing else;
\* for "*" it yields handlers of the global bucket only.
C9_PlainKeyResolution ==
    \A m \in Mgrs, c \in ChannelNames : \A seq \in handlers(m, c) :
        /\ HandlerSeq(seq) = Bucket(m, Star) \o Bucket(m, c)
        /\ c = Star => HandlersIn(seq) \subseteq Range(Bucket(m, Star))

\* two handlers that some one bucket of m holds
ShareBucket(m, f, l) ==
    \E k \in Keys : f \in Range(channels[m][k]) /\ l \in Range(channels[m][k])

\* C10 (the claim): the sequence a send resolved starts with the handlers of
\* the global bucket, and a listener never comes before a filter of a bucket
\* that holds both.
C10_ResolvedOrder ==
    call.status # "none" =>
        LET seq == HandlerSeq(call.seq)
            g == Bucket(call.root, Star)
        IN  /\ Len(g) <= Len(seq) /\ SubSeq(seq, 1, Len(g)) = g
            /\ \A i \in 1..Len(seq), j \in 1..Len(seq) :
                  (i < j /\ IsListener(seq[i]) /\ IsFilter(seq[j]))
                      => ~ShareBucket(call.root, seq[i], seq[j])

\* the manager n back-references up from m
RECURSIVE Up(_, _)
Up(m, n) == IF n = 0 THEN m ELSE manager[Up(m, n - 1)]

\* r is the root that the back-references of m lead to
LeadsTo(m, r) == manager[r] = r /\ \E n \in 0..Cardinality(Mgrs) : Up(m, n) = r

\* C11: a step that is m.push(event, "c", target), on a manager m whose
\* back-references lead to a root r, appends the one entry (event, "c", target)
\* to the tail of r's queue and leaves the queue of every other manager, every
\* handler index and every component set as they were.
C11_PushAppendsToRoot ==
    [][\A m \in Mgrs, r \in Mgrs :
          (LeadsTo(m, r) /\ Push(m, <<"c">>, channel[m])) =>
              /\ Len(evs') = Len(evs) + 1
              /\ evs'[Len(evs')].chan = <<"c">> /\ evs'[Len(evs')].target = channel[m]
              /\ queue'[r] = Append(queue[r], Len(evs'))
              /\ \A n \in Mgrs \ {r} : queue'[n] = queue[n]
              /\ UNCHANGED <<channels, allHandlers, components, manager>>]_vars

\* A is attached to B and B to D by the only two operations so far, and an
\* event that A pushed (its target is A's channel) is the tail of D's queue,
\* after one that D pushed
C11_Witness ==
    /\ manager["A"] = "B" /\ manager["B"] = "D" /\ manager["D"] = "D" /\ ops = 2
    /\ Len(evs) = 2 /\ queue["D"] = <<1, 2>>
    /\ evs[1].target = Null /\ evs[1].root = "D"
    /\ evs[2].target = <<"a">> /\ evs[2].root = "D"
    /\ queue["A"] = <<>> /\ queue["B"] = <<>>

\* the flushes of one root that found both events in the queue as they began
FoundBoth(e1, e2) ==
    IF e1.root # e2.root THEN {}
    ELSE Range(e1.queuedAt) \cap Range(e2.queuedAt)

\* C12: of two events that a flush found in the queue, the one pushed later is
\* sent first: the earlier one has not been sent in that flush unless the
\* later one has.
C12_NewestFirst ==
    \A id1 \in 1..Len(evs), id2 \in 1..Len(evs) :
        id1 < id2 =>
            \A n \in FoundBoth(evs[id1], evs[id2]) :
                SentIn(evs[id1], n) > 0 => SentIn(evs[id2], n) > 0

\* a flush that found two events has sent the later one and holds the earlier
\* one still
C12_Witness ==
    \E id1 \in 1..Len(evs), id2 \in 1..Len(evs) :
        /\ id1 < id2
        /\ flushing = evs[id1].root
        /\ flushNo[flushing] \in FoundBoth(evs[id1], evs[id2])
        /\ SentIn(evs[id2], flushNo[flushing]) = 1
        /\ SentIn(evs[id1], flushNo[flushing]) = 0
        /\ id1 \in Range(flushQ)

\* C13: a step that is m - c, for a component c whose back-reference is not
\* m, raises the TypeError (so that the unregistered hook, which follows the
\* unregister call, is not reached) and leaves every handler index, every
\* component set and every back-reference as they were.
C13_DetachOfStrangerFails ==
    [][\A m \in Mgrs, c \in Mgrs :
          (manager[c] # m /\ Minus(m, c)) =>
              /\ last'.op = "TypeError" /\ last'.c = c /\ last'.m = m
              /\ UNCHANGED <<channels, allHandlers, components, manager>>]_vars

\* m - c has just failed for a component c that is attached to another
\* manager, whose index holds c's handlers
C13_Witness ==
    /\ last.op = "TypeError"
    /\ manager[last.c] \notin {last.c, last.m}
    /\ \A i \in 1..Len(members[last.c]) :
          members[last.c][i] \in allHandlers[manager[last.c]]
    /\ last.c \in components[manager[last.c]]

\* C14 (the claim): an event that the producer pushed is not lost and is not
\* sent twice: until it is sent it is in D's queue or in the q of the flush
\* that is running, and it is sent at most once.
C14_NoEventLost ==
    \A id \in 1..Len(evs) :
        evs[id].kind = "event" =>
            /\ Len(evs[id].sent) <= 1
            /\ Len(evs[id].sent) = 0 =>
                  \/ id \in Range(queue["D"])
                  \/ flushing = "D" /\ id \in Range(flushQ)

\* the handlers of c, in some bucket of m or in m's handler set
HoldsHandlerOf(m, c) ==
    \E i \in 1..Len(members[c]) :
        \/ members[c][i] \in allHandlers[m]
        \/ \E k \in Keys : members[c][i] \in Range(channels[m][k])

\* C15 (the claim, leaving aside the component set and the index that the
\* component itself keeps): a component is in the component set of at most
\* one other manager, that manager is the one its back-reference names, and no
\* other manager's index holds a handler of the component.
C15_OneParentAtATime ==
    \A c \in Mgrs :
        /\ \A m \in Mgrs \ {c}, n \in Mgrs \ {c} :
              (c \in components[m] /\ c \in components[n]) => m = n
        /\ \A m \in Mgrs \ {c} : c \in components[m] => manager[c] = m
        /\ \A m \in Mgrs \ {c} : HoldsHandlerOf(m, c) => manager[c] = m

\* C16 (the claim): every handler that is in a bucket of a manager is in the
\* manager's handler set, which the key "*:*" resolves to.
C16_BucketsWithinHandlerSet ==
    \A m \in Mgrs, k \in Keys :
        /\ Range(channels[m][k]) \subseteq allHandlers[m]
        /\ \A seq \in handlers(m, Fmt(Star, Star)) :
              Range(channels[m][k]) \subseteq HandlersIn(seq)

\* C17: once stop has cleared the flag the worker thread begins no turn of
\* its loop (no flush is begun), and stop, which waits in the join, returns
\* in the end.
C17_StopJoins ==
    /\ [][(main \in {"joining", "stopped"}) => (flushNo' = flushNo)]_vars
    /\ (main = "joining") ~> (main = "stopped")

\* stop has returned: the thread has ended after a flush that sent an event,
\* and an event pushed since waits in the queue with no flush to come
C17_Witness ==
    /\ main = "stopped" /\ worker = "done" /\ ~running
    /\ flushNo["D"] >= 1
    /\ \E id \in 1..Len(evs) : Len(evs[id].sent) = 1
    /\ queue["D"] # <<>>

\* the state is one that m + c leaves, for a component c that was detached
\* and is neither m nor m's manager: c has just registered with m's manager
JustAdded(m, c) ==
    /\ c # m /\ c # last.m
    /\ last.op = "register" /\ last.c = c /\ last.m = manager[m]
    /\ last.detached

\* C18 (the claim, as far as the success of the detach and the back-reference
\* go): m - c, as the step that follows m + c for a detached component c,
\* does not raise the TypeError and leaves c its own manager.
C18_PlusThenMinus ==
    [][\A m \in Mgrs, c \in Mgrs :
          (JustAdded(m, c) /\ Minus(m, c)) =>
              /\ last'.op # "TypeError"
              /\ manager'[c] = c]_vars

\* the index of m holds the handler h: in the handler set and in a bucket
InIndex(m, h) ==
    /\ h \in allHandlers[m]
    /\ \E k \in Keys : h \in Range(channels[m][k])

\* C19 (the claim, for the trees more than one level deep): when the manager
\* of a component c is itself attached to another manager, and the
\* back-references of c lead to the root r, the index of r holds every
\* handler of c.
C19_HandlersAtRoot ==
    \A c \in Mgrs, r \in Mgrs :
        (manager[c] # c /\ manager[manager[c]] # manager[c] /\ LeadsTo(c, r)) =>
            \A i \in 1..Len(members[c]) : InIndex(r, members[c][i])

\* C20 (the claim): with events in the root's queue, no producer and no
\* handler that pushes, flushing again and again comes to a state between two
\* flushes in which the root's queue is empty.
C20_Quiescence == <>(AtRest /\ queue["D"] = <<>>)

(***************************************************************************)
(* The specifications.  Spec: the registration operations on the freshly   *)
(* constructed components.  SpecRun: push, flush and send on a tree that   *)
(* registration built: A and B attached to D.  SpecSend: send alone, on    *)
(* that tree and on the tree with A alone attached.                        *)
(* SpecTree: trees built by register and +, and push on them.  SpecAttach: *)
(* the attach and detach operations alone.  SpecThread: start, stop, the   *)
(* worker thread and a producer thread on the tree of SpecRun.             *)
(* SpecQuiesce: flush after flush on that tree, with events queued.        *)
(***************************************************************************)
Init == Constructed /\ Idle

\* the index of D after the components cs registered with it, one after the other
RECURSIVE Attached(_, _)
Attached(idx, cs) ==
    IF cs = <<>> THEN idx ELSE Attached(Registered(idx, Head(cs)), Tail(cs))

Own(m) == Registered(EmptyIndex, m)

\* the state after the components cs registered with D, one after the other
Tree(cs) ==
    LET index == [m \in Mgrs |-> IF m = "D" THEN Attached(Own(m), cs) ELSE Own(m)]
    IN  /\ channels = [m \in Mgrs |-> index[m].ch]
        /\ allHandlers = [m \in Mgrs |-> index[m].hs]
        /\ arrival = [m \in Mgrs |-> index[m].arr]
        /\ components = [m \in Mgrs |-> IF m = "D" THEN {"D"} \cup Range(cs) ELSE {m}]
        /\ manager = [m \in Mgrs |-> IF m \in Range(cs) THEN "D" ELSE m]
        /\ last = NoOp
        /\ ops = 0

InitRun == Tree(<<"A", "B">>) /\ Idle

InitSend == (Tree(<<"A", "B">>) \/ Tree(<<"A">>)) /\ Idle

Spec == Init /\ [][NextReg]_vars

SpecRun == InitRun /\ [][NextRun]_vars

SpecSend == InitSend /\ [][NextSend]_vars

\* building trees by register and +, and push from every component, with the
\* component's own channel as the target
NextTree ==
    \/ \E c \in Mgrs, m \in Mgrs : Register(c, m)
    \/ \E m \in Mgrs, c \in Mgrs : Plus(m, c)
    \/ \E m \in Mgrs : Push(m, <<"c">>, channel[m])

SpecTree == Init /\ [][NextTree]_vars

\* the attach and detach operations alone
NextAttach ==
    \/ \E c \in Mgrs, m \in Mgrs : Register(c, m)
    \/ \E c \in Mgrs : Unregister(c)
    \/ \E m \in Mgrs, c \in Mgrs : Plus(m, c)
    \/ \E m \in Mgrs, c \in Mgrs : Minus(m, c)

SpecAttach == Init /\ [][NextAttach]_vars

\* the threads on the tree of SpecRun; the scheduler lets every thread that
\* can take a step take one in the end, so the worker thread goes on and the
\* join returns once the thread has ended
SpecThread ==
    /\ InitRun
    /\ [][NextThread]_vars
    /\ WF_vars(WorkerStep)
    /\ WF_vars(Join)

\* the tree of SpecRun after the caller pushed one event or two on "c"
InitQuiesce ==
    /\ Tree(<<"A", "B">>)
    /\ flushing = "none"
    /\ flushQ = <<>>
    /\ call = NoCall
    /\ flushNo = [m \in Mgrs |-> 0]
    /\ logged = 0
    /\ Unstarted
    /\ \E n \in 1..2 :
          LET none == [q |-> [m \in Mgrs |-> <<>>], es |-> <<>>]
              one == push(none, "A", <<"c">>, Null, "event")
              two == push(one, "D", <<"c">>, Null, "event")
          IN  /\ queue = IF n = 1 THEN one.q ELSE two.q
              /\ evs = IF n = 1 THEN one.es ELSE two.es

\* the caller flushes again and again, and every flush and every handler
\* comes to its end: a step that can be taken is taken
SpecQuiesce == InitQuiesce /\ [][NextQuiesce]_vars /\ WF_vars(NextQuiesce)

====
